---- MODULE Spec2Model ----
(***************************************************************************)
(* Follow graph of functions/index.js: the callable updateFollowStatus     *)
(* (a Firestore transaction), the callables getUserFollowStats and         *)
(* checkFollowStatus, the trigger onUserCreate and the scheduled job       *)
(* syncFollowerCounts, all sharing one Firestore database.                 *)
(*                                                                         *)
(* A user record users/{id} is a function from the fields present on it    *)
(* to their values; the collection `users` is a function from the ids of   *)
(* the existing records.  The subcollections users/{id}/following and      *)
(* users/{id}/followers are sets of document ids.                          *)
(***************************************************************************)
EXTENDS Integers, Sequences, FiniteSets, TLC

\* ------------------------------------------------------------------ bounds
MaxCalls == 2        \* updateFollowStatus invocations in one behaviour
MaxAttempts == 2     \* attempts the store gives one transaction
MaxPasses == 2       \* syncFollowerCounts runs in one behaviour
MaxLogged == 3       \* committed toggles after which no answered request makes room for a new one

\* ------------------------------------------------------------------ universe
Users == {"u1", "u2"}                 \* ids of the accounts that may be created
UserOrder == <<"u1", "u2">>           \* order of usersSnapshot.docs (by id)
NoAuth == "no-auth"                   \* context.auth carries no uid
NoTarget == ""                        \* data.targetUserId absent or empty
Callers == Users \cup {NoAuth}
Targets == Users \cup {NoTarget}
Calls == 1..MaxCalls
Passes == 1..MaxPasses

FollowersCount == "followersCount"
FollowingCount == "followingCount"
Fields == {FollowersCount, FollowingCount}

\* The records the account subsystem creates: each counter absent or 0.
EmptyDoc == [f \in {} |-> 0]
NewDocs == {EmptyDoc, [f \in Fields |-> 0]}

VARIABLES
    users,       \* collection users: id -> record
    following,   \* users/{id}/following: id -> set of ids
    followers,   \* users/{id}/followers: id -> set of ids
    created,     \* creation events: id -> the snapshot the trigger receives
    hooked,      \* ids whose onUserCreate invocation has run
    call,        \* updateFollowStatus invocations
    pass,        \* syncFollowerCounts runs
    answer,      \* what the last step answered, when it answered without a transaction
    pairLog,     \* statuses of the committed toggles of each pair, in commit order
    isOnline,            \* FirebaseErrorHandler.isOnline
    connectionAttempts,  \* FirebaseErrorHandler.connectionAttempts
    fallbackMode,        \* FirebaseErrorHandler.fallbackMode
    retries,             \* retryConnection calls in flight: how many wait at each await
    notification         \* the message showUserNotification displayed last

vars == <<users, following, followers, created, hooked, call, pass, answer, pairLog,
          isOnline, connectionAttempts, fallbackMode, retries, notification>>
store == <<users, following, followers>>
follow == <<users, following, followers, created, hooked, call, pass, answer, pairLog>>
handler == <<isOnline, connectionAttempts, fallbackMode, retries, notification>>

\* ------------------------------------------------------------------ Firestore
\* DocumentSnapshot of users/{id}: the empty set when the record does not exist.
GetUser(id) == IF id \in DOMAIN users THEN {users[id]} ELSE {}

\* followingDoc.exists for users/{a}/following/{b}
FollowingDocExists(a, b) == a \in DOMAIN following /\ b \in following[a]

\* `x || 0` on a counter field of a record
StoredCount(doc, field) == IF field \in DOMAIN doc THEN doc[field] ELSE 0

\* update(ref, {field: FieldValue.increment(d)}): an absent field counts as 0
Increment(doc, field, d) ==
    [f \in DOMAIN doc \cup {field} |->
        IF f = field THEN StoredCount(doc, field) + d ELSE doc[f]]

\* update(ref, {followersCount: fe, followingCount: fg})
SetCounts(doc, fe, fg) ==
    [f \in DOMAIN doc \cup Fields |->
        IF f = FollowersCount THEN fe
        ELSE IF f = FollowingCount THEN fg ELSE doc[f]]

\* A write of the given kind ("toggle", "hook" or "sync") commits: the runs of
\* the job that are in progress have seen it.
Disturbed(ps, kind) ==
    [p \in Passes |->
        IF ps[p].pc = "scan" THEN [ps[p] EXCEPT !.seen = @ \cup {kind}] ELSE ps[p]]

\* ------------------------------------------------------------------ updateFollowStatus
Statuses == {"followed", "unfollowed"}

NoSnap == [edge |-> FALSE, follower |-> {}, followed |-> {}]
NoObs == [inFollowing |-> FALSE, inFollowers |-> FALSE,
          followingCount |-> {}, followersCount |-> {}, followingSize |-> 0, followersSize |-> 0]
IdleCall == [pc |-> "idle", caller |-> NoAuth, target |-> NoTarget, att |-> 0,
             snap |-> NoSnap, res |-> "none", pre |-> NoObs, post |-> NoObs, after |-> {},
             gone |-> FALSE]
NoAnswer == [op |-> "none", caller |-> NoAuth, target |-> NoTarget, res |-> "none",
             followersCount |-> 0, followingCount |-> 0]

\* Mutant of Validate: the check of the target (lines 28-31) is missing.
ValidateNoTargetCheck(auth, target) ==
    IF auth = NoAuth THEN "internal"
    ELSE IF auth = "" THEN "unauthenticated"
    ELSE IF auth = target THEN "invalid-argument"
    ELSE "ok"

\* Mutant of Validate: the self-follow check (lines 23-26) is missing.
ValidateNoSelfCheck(auth, target) ==
    IF auth = NoAuth THEN "internal"
    ELSE IF auth = "" THEN "unauthenticated"
    ELSE IF target = NoTarget THEN "invalid-argument"
    ELSE "ok"

\* Lines 15-31: the checks made before the store is touched.  Reading
\* context.auth.uid with no auth context throws a TypeError outside the try
\* block, which the callable wrapper reports as internal.
Validate(auth, target) ==
    IF auth = NoAuth THEN "internal"
    ELSE IF auth = "" THEN "unauthenticated"
    ELSE IF auth = target THEN "invalid-argument"
    ELSE IF target = NoTarget THEN "invalid-argument"
    ELSE "ok"

\* Lines 42-46: the three transaction.get calls, one consistent snapshot.
ReadSnap(a, b) ==
    [edge |-> FollowingDocExists(a, b), follower |-> GetUser(a), followed |-> GetUser(b)]

\* Mutant of UsersExist: only the follower's record is checked.
UsersExistFollowerOnly(snap) == snap.follower # {}

\* Lines 48-54: the not-found checks of the update function.
UsersExist(snap) == snap.follower # {} /\ snap.followed # {}

\* Mutant of StatusOf: both branches return followed.
StatusAlwaysFollowed(snap) == "followed"

\* Mutant of StatusOf: the unfollow branch reports a failure after its writes.
StatusErrorAfterWrite(snap) == IF snap.edge THEN "internal" ELSE "followed"

\* Lines 56, 74, 99: the branch taken and the status returned.
StatusOf(snap) == IF snap.edge THEN "unfollowed" ELSE "followed"

\* Lines 61 and 80: users/{a}/following/{b} deleted or set.
WriteFollowing(fg, a, b, snap) ==
    [fg EXCEPT ![a] = IF snap.edge THEN @ \ {b} ELSE @ \cup {b}]

\* Mutant of WriteFollowers: the mirror entry is not written.
WriteFollowersSkipped(fe, a, b, snap) == fe

\* Lines 64 and 86: users/{b}/followers/{a} deleted or set.
WriteFollowers(fe, a, b, snap) ==
    [fe EXCEPT ![b] = IF snap.edge THEN @ \ {a} ELSE @ \cup {a}]

\* Mutant of Delta: the unfollow branch increments too.
DeltaAlwaysUp(snap) == 1

\* Lines 67-72 and 92-97: the two counter updates.
Delta(snap) == IF snap.edge THEN -1 ELSE 1

\* Mutant of WriteCounters: each of the two users gets both counters changed.
WriteCountersBothSides(us, a, b, snap) ==
    [us EXCEPT ![a] = Increment(Increment(@, FollowingCount, Delta(snap)),
                                FollowersCount, Delta(snap)),
               ![b] = Increment(Increment(@, FollowersCount, Delta(snap)),
                                FollowingCount, Delta(snap))]

\* Mutant of WriteCounters: followersCount of the followed user is not updated.
WriteCountersFollowerOnly(us, a, b, snap) ==
    [us EXCEPT ![a] = Increment(@, FollowingCount, Delta(snap))]

WriteCounters(us, a, b, snap) ==
    [us EXCEPT ![a] = Increment(@, FollowingCount, Delta(snap)),
               ![b] = Increment(@, FollowersCount, Delta(snap))]

\* Mutant of Conflict: the reads and the writes are not one transaction.
ConflictIgnored(c) == FALSE

\* Mutant of Conflict: a run of the job holds the records while it is in
\* progress, and a commit that meets it loses.
ConflictWithJob(c) ==
    \/ ReadSnap(call[c].caller, call[c].target) # call[c].snap
    \/ \E p \in Passes : pass[p].pc = "scan"

\* runTransaction commits only if nothing it read has changed since.
Conflict(c) == ReadSnap(call[c].caller, call[c].target) # call[c].snap

\* The value of a field of a record: the empty set when the field is absent.
FieldOf(doc, field) == IF field \in DOMAIN doc THEN {doc[field]} ELSE {}

\* What a toggle of the pair (a, b) is about, in the store (us, fg, fe): the two
\* index entries, a's followingCount and b's followersCount, and the sizes of
\* a's following index and of b's followers index.
Observe(us, fg, fe, a, b) ==
    [inFollowing |-> b \in fg[a], inFollowers |-> a \in fe[b],
     followingCount |-> FieldOf(us[a], FollowingCount),
     followersCount |-> FieldOf(us[b], FollowersCount),
     followingSize |-> Cardinality(fg[a]), followersSize |-> Cardinality(fe[b])]

\* Mutant of Caught: the catch block turns every error into internal.
CaughtAsInternal(error) == "internal"

\* Lines 106-115: the catch block of updateFollowStatus.  An HttpsError (the
\* not-found of lines 49 and 53) is thrown again as it is; any other error (the
\* store gave up after its attempts, or failed otherwise) becomes internal.
Caught(error) == IF error = "not-found" THEN "not-found" ELSE "internal"

\* Lines 13-31: a request that fails a check is answered at once.
Reject(auth, target) ==
    /\ Validate(auth, target) # "ok"
    /\ answer' = [NoAnswer EXCEPT !.op = "updateFollowStatus", !.caller = auth,
                                   !.target = target, !.res = Validate(auth, target)]
    /\ UNCHANGED <<handler, store, created, hooked, call, pass, pairLog>>

\* Lines 13-40: a request that passes the checks starts its transaction.
\* `after` remembers the calls that had committed when this one was made.
Invoke(c, auth, target) ==
    /\ call[c].pc = "idle"
    /\ \A d \in Calls : d < c => call[d].pc # "idle"
    /\ Validate(auth, target) = "ok"
    /\ call' = [call EXCEPT ![c] =
         [@ EXCEPT !.pc = "txn", !.caller = auth, !.target = target, !.att = 1,
                   !.after = {d \in Calls : call[d].res \in Statuses}]]
    /\ answer' = NoAnswer
    /\ UNCHANGED <<handler, store, created, hooked, pass, pairLog>>

\* Lines 40-54: one run of the update function up to its branch.
TxnRead(c) ==
    /\ call[c].pc = "txn"
    /\ LET snap == ReadSnap(call[c].caller, call[c].target) IN
       call' = [call EXCEPT ![c] =
         IF UsersExist(snap)
         THEN [@ EXCEPT !.pc = "commit", !.snap = snap]
         ELSE [@ EXCEPT !.pc = "done", !.att = 0, !.res = Caught("not-found")]]
    /\ answer' = NoAnswer
    /\ UNCHANGED <<handler, store, created, hooked, pass, pairLog>>

\* Lines 56-101: the staged writes commit as one unit.
TxnCommit(c) ==
    /\ call[c].pc = "commit"
    /\ ~Conflict(c)
    /\ LET a == call[c].caller
           b == call[c].target
           snap == call[c].snap
       IN /\ following' = WriteFollowing(following, a, b, snap)
          /\ followers' = WriteFollowers(followers, a, b, snap)
          /\ users' = WriteCounters(users, a, b, snap)
          /\ call' = [call EXCEPT ![c] =
               [@ EXCEPT !.pc = "done", !.snap = NoSnap, !.res = StatusOf(snap),
                         !.pre = Observe(users, following, followers, a, b),
                         !.post = Observe(users', following', followers', a, b)]]
          /\ pairLog' = [pairLog EXCEPT ![<<a, b>>] = Append(@, StatusOf(snap))]
    /\ pass' = Disturbed(pass, "toggle")
    /\ answer' = NoAnswer
    /\ UNCHANGED <<handler, created, hooked>>

\* Mutant of TxnAbort: a commit that lost is neither run again nor given up.
TxnAbortWaiting(c) ==
    /\ call[c].pc = "commit"
    /\ Conflict(c)
    /\ UNCHANGED vars

\* The commit loses against a write to something it read: the store runs the
\* update function again, or gives up (line 115) after MaxAttempts attempts.
TxnAbort(c) ==
    /\ call[c].pc = "commit"
    /\ Conflict(c)
    /\ call' = [call EXCEPT ![c] =
         IF @.att < MaxAttempts
         THEN [@ EXCEPT !.pc = "txn", !.att = @ + 1, !.snap = NoSnap]
         ELSE [@ EXCEPT !.pc = "done", !.att = 0, !.snap = NoSnap, !.res = Caught("aborted")]]
    /\ answer' = NoAnswer
    /\ UNCHANGED <<handler, store, created, hooked, pass, pairLog>>

\* Lines 106-115: any other failure of the transaction; nothing is written.
TxnFail(c) ==
    /\ call[c].pc \in {"txn", "commit"}
    /\ call' = [call EXCEPT ![c] =
         [@ EXCEPT !.pc = "done", !.att = 0, !.snap = NoSnap, !.res = Caught("unavailable")]]
    /\ answer' = NoAnswer
    /\ UNCHANGED <<handler, store, created, hooked, pass, pairLog>>

\* The caller gives the request up (closes the page, times out) while the
\* function runs: lines 13-117 never look at the connection, and the
\* invocation goes on as it would have.
Abandon(c) ==
    /\ call[c].pc \in {"txn", "commit"}
    /\ ~call[c].gone
    /\ call' = [call EXCEPT ![c] = [@ EXCEPT !.gone = TRUE]]
    /\ answer' = NoAnswer
    /\ UNCHANGED <<handler, store, created, hooked, pass, pairLog>>

\* ------------------------------------------------------------------ accounts, onUserCreate
\* The account subsystem creates users/{id}; the creation event is queued.
CreateUser(id, doc) ==
    /\ id \notin DOMAIN users
    /\ users' = [u \in DOMAIN users \cup {id} |-> IF u = id THEN doc ELSE users[u]]
    /\ created' = [u \in DOMAIN created \cup {id} |-> IF u = id THEN doc ELSE created[u]]
    /\ answer' = NoAnswer
    /\ UNCHANGED <<handler, following, followers, hooked, call, pass, pairLog>>

\* Mutant of NeedsInit: the record is initialized only when both counters are absent.
NeedsInitBothAbsent(snapDoc) ==
    FollowersCount \notin DOMAIN snapDoc /\ FollowingCount \notin DOMAIN snapDoc

\* Line 200: the test made on the snapshot of the creation event.
NeedsInit(snapDoc) == FollowersCount \notin DOMAIN snapDoc \/ FollowingCount \notin DOMAIN snapDoc

\* Lines 202-205: snap.ref.update with the values of the creation snapshot.
InitCounts(doc, snapDoc) ==
    SetCounts(doc, StoredCount(snapDoc, FollowersCount), StoredCount(snapDoc, FollowingCount))

\* Lines 193-211: the trigger runs some time after the creation.
OnUserCreate(id) ==
    /\ id \in DOMAIN created
    /\ id \notin hooked
    /\ hooked' = hooked \cup {id}
    /\ IF NeedsInit(created[id])
       THEN /\ users' = [users EXCEPT ![id] = InitCounts(@, created[id])]
            /\ pass' = Disturbed(pass, "hook")
       ELSE UNCHANGED <<users, pass>>
    /\ answer' = NoAnswer
    /\ UNCHANGED <<handler, following, followers, created, call, pairLog>>

\* Mutant of Contained: the catch block throws the error again.
Rethrown(error) == "failed"

\* Lines 207-209 and 267-269: the catch blocks of the two background
\* functions log the error and let the invocation end as any other.
Contained(error) == "done"

\* Lines 201-209: the update of line 202 fails; nothing is written.
OnUserCreateFail(id) ==
    /\ id \in DOMAIN created
    /\ id \notin hooked
    /\ NeedsInit(created[id])
    /\ hooked' = hooked \cup {id}
    /\ answer' = [NoAnswer EXCEPT !.op = "onUserCreate", !.target = id,
                                   !.res = Contained("update")]
    /\ UNCHANGED <<handler, store, created, call, pass, pairLog>>

\* Lines 193-211 again: the creation event is delivered at least once, and a
\* later delivery carries the same snapshot of the record as it was created.
OnUserCreateAgain(id) ==
    /\ id \in hooked
    /\ IF NeedsInit(created[id])
       THEN /\ users' = [users EXCEPT ![id] = InitCounts(@, created[id])]
            /\ pass' = Disturbed(pass, "hook")
       ELSE UNCHANGED <<users, pass>>
    /\ answer' = NoAnswer
    /\ UNCHANGED <<handler, following, followers, created, hooked, call, pairLog>>

\* ------------------------------------------------------------------ syncFollowerCounts
IdlePass == [pc |-> "idle", list |-> EmptyDoc, todo |-> <<>>, batch |-> EmptyDoc,
             err |-> FALSE, seen |-> {}, wrote |-> FALSE, overlap |-> FALSE]

\* usersSnapshot.docs: the listed ids, in id order.
RECURSIVE DocsOf(_, _)
DocsOf(order, ids) ==
    IF order = <<>> THEN <<>>
    ELSE IF Head(order) \in ids THEN <<Head(order)>> \o DocsOf(Tail(order), ids)
    ELSE DocsOf(Tail(order), ids)

\* Mutant of Differs: only followersCount is compared.
DiffersFollowersOnly(doc, fers, fing) == fers # StoredCount(doc, FollowersCount)

\* Lines 241-246: the comparison of the listed counters with the sizes read.
Differs(doc, fers, fing) ==
    fers # StoredCount(doc, FollowersCount) \/ fing # StoredCount(doc, FollowingCount)

\* Mutant of Stage: every user is added to the batch.
StageAlways(batch, id, doc, fers, fing) ==
    [u \in DOMAIN batch \cup {id} |->
        IF u = id THEN [followersCount |-> fers, followingCount |-> fing] ELSE batch[u]]

\* Lines 244-257: the user is added to the batch when the counts differ.
Stage(batch, id, doc, fers, fing) ==
    IF Differs(doc, fers, fing)
    THEN [u \in DOMAIN batch \cup {id} |->
            IF u = id THEN [followersCount |-> fers, followingCount |-> fing] ELSE batch[u]]
    ELSE batch

\* Mutant of ApplyBatch: the update leaves followingCount out.
ApplyBatchFollowersOnly(us, batch) ==
    [u \in DOMAIN us |->
        IF u \in DOMAIN batch
        THEN Increment(us[u], FollowersCount,
                       batch[u][FollowersCount] - StoredCount(us[u], FollowersCount))
        ELSE us[u]]

\* Line 261: batch.commit() applies every staged update at once.
ApplyBatch(us, batch) ==
    [u \in DOMAIN us |->
        IF u \in DOMAIN batch
        THEN SetCounts(us[u], batch[u][FollowersCount], batch[u][FollowingCount])
        ELSE us[u]]

\* Lines 224-226: the run starts by listing the collection.  `overlap` remembers
\* that another run was in progress at some time during this one.
SyncList(p) ==
    /\ pass[p].pc = "idle"
    /\ \A q \in Passes : q < p => pass[q].pc # "idle"
    /\ pass' = [q \in Passes |->
         IF q = p
         THEN [pass[p] EXCEPT !.pc = "scan", !.list = users,
                              !.todo = DocsOf(UserOrder, DOMAIN users),
                              !.overlap = \E r \in Passes : pass[r].pc = "scan"]
         ELSE IF pass[q].pc = "scan" THEN [pass[q] EXCEPT !.overlap = TRUE]
         ELSE pass[q]]
    /\ answer' = NoAnswer
    /\ UNCHANGED <<handler, store, created, hooked, call, pairLog>>

\* Lines 228-257: one turn of the loop.  The two gets of Promise.all are
\* issued together and read the two indexes of the user as they are then.
SyncRead(p) ==
    /\ pass[p].pc = "scan"
    /\ pass[p].todo # <<>>
    /\ LET id == Head(pass[p].todo) IN
       pass' = [pass EXCEPT ![p] =
         [@ EXCEPT !.todo = Tail(@),
                   !.batch = Stage(@, id, pass[p].list[id],
                                   Cardinality(followers[id]), Cardinality(following[id]))]]
    /\ answer' = NoAnswer
    /\ UNCHANGED <<handler, store, created, hooked, call, pairLog>>

\* Mutant of SyncCommit: the run also empties the indexes of the users it corrects.
SyncCommitPruning(p) ==
    /\ pass[p].pc = "scan"
    /\ pass[p].todo = <<>>
    /\ users' = ApplyBatch(users, pass[p].batch)
    /\ following' = [u \in Users |-> IF u \in DOMAIN pass[p].batch THEN {} ELSE following[u]]
    /\ followers' = [u \in Users |-> IF u \in DOMAIN pass[p].batch THEN {} ELSE followers[u]]
    /\ pass' = [pass EXCEPT ![p] = [IdlePass EXCEPT !.pc = "done", !.seen = pass[p].seen,
                                                   !.wrote = (pass[p].batch # EmptyDoc),
                                                   !.overlap = pass[p].overlap]]
    /\ answer' = NoAnswer
    /\ UNCHANGED <<handler, created, hooked, call, pairLog>>

\* Lines 260-265: the batch is committed when it holds an update.
SyncCommit(p) ==
    /\ pass[p].pc = "scan"
    /\ pass[p].todo = <<>>
    /\ users' = ApplyBatch(users, pass[p].batch)
    /\ pass' = [IF pass[p].batch # EmptyDoc THEN Disturbed(pass, "sync") ELSE pass
                 EXCEPT ![p] = [IdlePass EXCEPT !.pc = "done", !.seen = pass[p].seen,
                                                !.wrote = (pass[p].batch # EmptyDoc),
                                                !.overlap = pass[p].overlap]]
    /\ answer' = NoAnswer
    /\ UNCHANGED <<handler, following, followers, created, hooked, call, pairLog>>

\* Lines 224 and 267-269: the listing of the collection fails; the run ends.
SyncListFail(p) ==
    /\ pass[p].pc = "idle"
    /\ \A q \in Passes : q < p => pass[q].pc # "idle"
    /\ pass' = [pass EXCEPT ![p] = [IdlePass EXCEPT !.pc = Contained("list"), !.err = TRUE]]
    /\ answer' = NoAnswer
    /\ UNCHANGED <<handler, store, created, hooked, call, pairLog>>

\* Lines 267-269: a failed get (of the indexes of the next user) or a failed
\* commit (of a batch that holds an update) ends the run; nothing is written.
SyncFail(p) ==
    /\ pass[p].pc = "scan"
    /\ pass[p].todo # <<>> \/ pass[p].batch # EmptyDoc
    /\ pass' = [pass EXCEPT ![p] =
         [IdlePass EXCEPT !.pc = Contained("get or commit"), !.err = TRUE,
                          !.seen = pass[p].seen]]
    /\ answer' = NoAnswer
    /\ UNCHANGED <<handler, store, created, hooked, call, pairLog>>

\* ------------------------------------------------------------------ checkFollowStatus, getUserFollowStats
\* Lines 160-169: as in updateFollowStatus, reading context.auth.uid with no
\* auth context throws before the first check.
ValidateCheck(auth, target) ==
    IF auth = NoAuth THEN "internal"
    ELSE IF auth = "" THEN "unauthenticated"
    ELSE IF target = NoTarget THEN "invalid-argument"
    ELSE "ok"

\* Mutant of IsFollowing: the entry of the caller under the target is read.
IsFollowingReversed(auth, target) ==
    IF FollowingDocExists(target, auth) THEN "true" ELSE "false"

\* Lines 172-181: isFollowing is followingDoc.exists.
IsFollowing(auth, target) == IF FollowingDocExists(auth, target) THEN "true" ELSE "false"

\* Lines 159-187.
CheckFollowStatus(auth, target) ==
    /\ answer' = [NoAnswer EXCEPT !.op = "checkFollowStatus", !.caller = auth,
                                   !.target = target,
                                   !.res = IF ValidateCheck(auth, target) = "ok"
                                           THEN IsFollowing(auth, target)
                                           ELSE ValidateCheck(auth, target)]
    /\ UNCHANGED <<handler, store, created, hooked, call, pass, pairLog>>

\* Mutant of StatsUser: data.userId is ignored.
StatsUserCallerOnly(auth, userId) == auth

\* Lines 124-128: data.userId || context.auth.uid; the right operand is only
\* evaluated, and only then throws, when data.userId is absent or empty.
StatsUser(auth, userId) == IF userId # NoTarget THEN userId ELSE auth

ValidateStats(auth, userId) ==
    IF userId = NoTarget /\ auth = NoAuth THEN "internal"
    ELSE IF StatsUser(auth, userId) = "" THEN "invalid-argument"
    ELSE IF GetUser(StatsUser(auth, userId)) = {} THEN "not-found"
    ELSE "ok"

\* Mutant of GetUserFollowStats: a request that finds a counter missing on
\* the record writes it.
GetUserFollowStatsRepairing(auth, userId) ==
    /\ answer' =
         IF ValidateStats(auth, userId) = "ok"
         THEN [NoAnswer EXCEPT !.op = "getUserFollowStats", !.caller = auth,
                 !.target = userId, !.res = "ok",
                 !.followersCount = StoredCount(users[StatsUser(auth, userId)], FollowersCount),
                 !.followingCount = StoredCount(users[StatsUser(auth, userId)], FollowingCount)]
         ELSE [NoAnswer EXCEPT !.op = "getUserFollowStats", !.caller = auth,
                 !.target = userId, !.res = ValidateStats(auth, userId)]
    /\ users' =
         IF ValidateStats(auth, userId) = "ok"
         THEN [users EXCEPT ![StatsUser(auth, userId)] =
                 SetCounts(@, StoredCount(@, FollowersCount), StoredCount(@, FollowingCount))]
         ELSE users
    /\ UNCHANGED <<handler, following, followers, created, hooked, call, pass, pairLog>>

\* Lines 123-153.
GetUserFollowStats(auth, userId) ==
    /\ answer' =
         IF ValidateStats(auth, userId) = "ok"
         THEN [NoAnswer EXCEPT !.op = "getUserFollowStats", !.caller = auth,
                 !.target = userId, !.res = "ok",
                 !.followersCount = StoredCount(users[StatsUser(auth, userId)], FollowersCount),
                 !.followingCount = StoredCount(users[StatsUser(auth, userId)], FollowingCount)]
         ELSE [NoAnswer EXCEPT !.op = "getUserFollowStats", !.caller = auth,
                 !.target = userId, !.res = ValidateStats(auth, userId)]
    /\ UNCHANGED <<handler, store, created, hooked, call, pass, pairLog>>

\* ------------------------------------------------------------------ FirebaseErrorHandler
\* The handler of firebase-error-handler.js runs in the page: one thread, so a
\* step is what runs between two awaits.
maxRetries == 3      \* this.maxRetries
MaxInFlight == 3     \* retryConnection calls waiting at an await at one time

NoRetries == [delay |-> 0, init |-> 0, test |-> 0]
InFlight == retries.delay + retries.init + retries.test

\* Lines 7-13: what the constructor leaves; `online` is navigator.onLine.
Constructed(online) ==
    /\ isOnline = online
    /\ connectionAttempts = 0
    /\ fallbackMode = FALSE
    /\ retries = NoRetries
    /\ notification = "none"

\* Mutant of BudgetLeft: the test of line 545 is off by one.
BudgetLeftInclusive(attempts) == attempts <= maxRetries

\* Line 545: the call goes on when connectionAttempts >= maxRetries is false.
BudgetLeft(attempts) == attempts < maxRetries

\* Lines 103-112: enableFallbackMode; currentUser is firebase.auth().currentUser.
EnableFallbackMode(currentUser) == fallbackMode' = (fallbackMode \/ ~currentUser)

\* Lines 544-556: retryConnection up to its first await.
RetryConnection ==
    IF BudgetLeft(connectionAttempts)
    THEN /\ connectionAttempts' = connectionAttempts + 1
         /\ retries' = [retries EXCEPT !.delay = @ + 1]
         /\ notification' = "retrying"
         /\ UNCHANGED fallbackMode
    ELSE /\ notification' = "max-retries"
         /\ UNCHANGED <<connectionAttempts, fallbackMode, retries>>

\* A call that goes on needs room among the calls in flight.
Room == BudgetLeft(connectionAttempts) => InFlight < MaxInFlight

\* Line 354: the Retry Connection button of the help dialog.
ClickRetry ==
    /\ Room
    /\ RetryConnection
    /\ UNCHANGED <<follow, isOnline>>

\* Lines 16-19 and 614-619: the 'online' event.
Online ==
    /\ ~isOnline
    /\ Room
    /\ isOnline' = TRUE
    /\ IF fallbackMode THEN RetryConnection
       ELSE UNCHANGED <<connectionAttempts, fallbackMode, retries, notification>>
    /\ UNCHANGED follow

\* Lines 21-24 and 624-627: the 'offline' event.
Offline(currentUser) ==
    /\ isOnline
    /\ isOnline' = FALSE
    /\ EnableFallbackMode(currentUser)
    /\ UNCHANGED <<follow, connectionAttempts, retries, notification>>

\* Lines 36-98: a monitor reports a blocked request; handleNetworkError also
\* shows a notification (line 83).
Blocked(currentUser, shown) ==
    /\ EnableFallbackMode(currentUser)
    /\ notification' = IF shown THEN "blocked" ELSE notification
    /\ UNCHANGED <<follow, isOnline, connectionAttempts, retries>>

\* Lines 571-572 and 584-586: disableFallbackMode and the notification after it.
DisableFallbackMode ==
    /\ fallbackMode' = FALSE
    /\ connectionAttempts' = 0
    /\ notification' = "restored"

\* Mutant of RetryFailed: a failed retry gives the budget back.
RetryFailedResetting ==
    /\ notification' = "retry-failed"
    /\ connectionAttempts' = 0
    /\ UNCHANGED fallbackMode

\* Lines 575-578: the catch block of retryConnection.
RetryFailed ==
    /\ notification' = "retry-failed"
    /\ UNCHANGED <<connectionAttempts, fallbackMode>>

\* Lines 559-562: the delay is over; hasInit is window.initializeFirebase.
\* Without it the call ends here.
RetryDelayOver(hasInit) ==
    /\ retries.delay > 0
    /\ retries' = [retries EXCEPT !.delay = @ - 1,
                                  !.init = IF hasInit THEN @ + 1 ELSE @]
    /\ UNCHANGED <<follow, isOnline, connectionAttempts, fallbackMode, notification>>

\* Lines 563-571: initializeFirebase settles; hasTest is window.testFirestoreConnection.
RetryInitSettled(ok, hasTest) ==
    /\ retries.init > 0
    /\ retries' = [retries EXCEPT !.init = @ - 1,
                                  !.test = IF ok /\ hasTest THEN @ + 1 ELSE @]
    /\ IF ~ok THEN RetryFailed
       ELSE IF hasTest THEN UNCHANGED <<connectionAttempts, fallbackMode, notification>>
       ELSE DisableFallbackMode
    /\ UNCHANGED <<follow, isOnline>>

\* Lines 567-572: testFirestoreConnection settles.
RetryTestSettled(ok) ==
    /\ retries.test > 0
    /\ retries' = [retries EXCEPT !.test = @ - 1]
    /\ IF ok THEN DisableFallbackMode ELSE RetryFailed
    /\ UNCHANGED <<follow, isOnline>>

Init ==
    /\ users = EmptyDoc
    /\ following = [u \in Users |-> {}]
    /\ followers = [u \in Users |-> {}]
    /\ created = EmptyDoc
    /\ hooked = {}
    /\ call = [c \in Calls |-> IdleCall]
    /\ pass = [p \in Passes |-> IdlePass]
    /\ answer = NoAnswer
    /\ pairLog = [pr \in Users \X Users |-> <<>>]
    /\ Constructed(TRUE)

Accounts ==
    \/ \E id \in Users, doc \in NewDocs : CreateUser(id, doc)
    \/ \E id \in Users : OnUserCreate(id)

Toggles ==
    \/ \E c \in Calls, auth \in Callers, target \in Targets : Invoke(c, auth, target)
    \/ \E c \in Calls : TxnRead(c)
    \/ \E c \in Calls : TxnCommit(c)
    \/ \E c \in Calls : TxnAbort(c)

\* The schedule (one run a day) starts a run when no other is in progress.
NoRunInProgress == \A q \in Passes : pass[q].pc # "scan"

Reconciliation ==
    \/ \E p \in Passes : NoRunInProgress /\ SyncList(p)
    \/ \E p \in Passes : SyncRead(p)
    \/ \E p \in Passes : SyncCommit(p)

\* A trigger delivered twice starts a run while another is in progress.
OverlappingReconciliation ==
    \/ \E p \in Passes : SyncList(p)
    \/ \E p \in Passes : SyncRead(p)
    \/ \E p \in Passes : SyncCommit(p)

Queries ==
    \/ \E auth \in Callers, target \in Targets : Reject(auth, target)
    \/ \E auth \in Callers, target \in Targets : CheckFollowStatus(auth, target)
    \/ \E auth \in Callers, userId \in Targets : GetUserFollowStats(auth, userId)

\* Accounts, toggles and the scheduled job.
Next == Accounts \/ Toggles \/ Reconciliation

Spec == Init /\ [][Next]_vars

\* Accounts and toggles together with the requests answered without a transaction.
NextApi == Accounts \/ Toggles \/ Queries

SpecApi == Init /\ [][NextApi]_vars

\* Both accounts exist, their triggers still to run; runs of the job may overlap.
InitPopulated ==
    /\ users \in [Users -> NewDocs]
    /\ created = users
    /\ following = [u \in Users |-> {}]
    /\ followers = [u \in Users |-> {}]
    /\ hooked = {}
    /\ call = [c \in Calls |-> IdleCall]
    /\ pass = [p \in Passes |-> IdlePass]
    /\ answer = NoAnswer
    /\ pairLog = [pr \in Users \X Users |-> <<>>]
    /\ Constructed(TRUE)

NextOverlap ==
    \/ \E id \in Users : OnUserCreate(id)
    \/ \E c \in Calls, auth \in Callers, target \in Targets : Invoke(c, auth, target)
    \/ \E c \in Calls : TxnRead(c)
    \/ \E c \in Calls : TxnCommit(c)
    \/ \E c \in Calls : TxnAbort(c)
    \/ OverlappingReconciliation

SpecOverlap == InitPopulated /\ [][NextOverlap]_vars

\* The requests of the API while the store may fail a transaction (line 106).
TxnFaults == \E c \in Calls : TxnFail(c)

NextTxnFaults == NextApi \/ TxnFaults

SpecTxnFaults == Init /\ [][NextTxnFaults]_vars

\* Records are created and removed by the account subsystem, and the store
\* keeps the subcollections of a removed record: any of the two records may be
\* missing while entries of the pair remain.  The records that exist hold the
\* sizes of their indexes and their triggers have run.
Pairs == {pr \in Users \X Users : pr[1] # pr[2]}

InitLeftover ==
    /\ \E edges \in SUBSET Pairs :
        /\ following = [a \in Users |-> {b \in Users : <<a, b>> \in edges}]
        /\ followers = [b \in Users |-> {a \in Users : <<a, b>> \in edges}]
    /\ \E present \in SUBSET Users :
        users = [u \in present |->
                    SetCounts(EmptyDoc, Cardinality(followers[u]), Cardinality(following[u]))]
    /\ created = users
    /\ hooked = DOMAIN users
    /\ call = [c \in Calls |-> IdleCall]
    /\ pass = [p \in Passes |-> IdlePass]
    /\ answer = NoAnswer
    /\ pairLog = [pr \in Users \X Users |-> <<>>]
    /\ Constructed(TRUE)

NextLeftover == Accounts \/ Toggles

\* Accounts, toggles and the scheduled job while the store may fail a read
\* or the commit of the job (line 267).
SyncFaults == \E p \in Passes : SyncFail(p)

NextSyncFaults == Next \/ SyncFaults

SpecSyncFaults == Init /\ [][NextSyncFaults]_vars

SpecLeftover == InitLeftover /\ [][NextLeftover]_vars

\* The records a client or an import may create: each counter absent, 0 or 1.
CreatedDocs == UNION {[present -> {0, 1}] : present \in SUBSET Fields}

\* Accounts created with any of these records, their creation events
\* delivered once or more, and toggles.
NextHook ==
    \/ \E id \in Users, doc \in CreatedDocs : CreateUser(id, doc)
    \/ \E id \in Users : OnUserCreate(id)
    \/ \E id \in Users : OnUserCreateAgain(id)
    \/ Toggles

SpecHook == Init /\ [][NextHook]_vars

\* Every function of the module at work on two existing accounts: triggers,
\* toggles, runs of the job, and the two callables that only read.
Reads ==
    \/ \E auth \in Callers, target \in Targets : CheckFollowStatus(auth, target)
    \/ \E auth \in Callers, userId \in Targets : GetUserFollowStats(auth, userId)

\* A single request to updateFollowStatus is made here.
NoCallYet == \A d \in Calls : call[d].pc = "idle"

OneToggle ==
    \/ \E c \in Calls, auth \in Callers, target \in Targets :
          NoCallYet /\ Invoke(c, auth, target)
    \/ \E c \in Calls : TxnRead(c)
    \/ \E c \in Calls : TxnCommit(c)
    \/ \E c \in Calls : TxnAbort(c)

NextAll ==
    \/ \E id \in Users : OnUserCreate(id)
    \/ OneToggle
    \/ Reconciliation
    \/ Reads

SpecAll == InitPopulated /\ [][NextAll]_vars

\* Three accounts whose triggers have run, and any number of requests to
\* updateFollowStatus, MaxCalls of them in progress at a time: a request that
\* has been answered makes room for a new one.
People == Users \cup {"u3"}

RECURSIVE TotalLen(_, _)
TotalLen(log, prs) ==
    IF prs = {} THEN 0
    ELSE LET pr == CHOOSE x \in prs : TRUE IN Len(log[pr]) + TotalLen(log, prs \ {pr})

Return(c) ==
    /\ call[c].pc = "done"
    /\ TotalLen(pairLog, DOMAIN pairLog) < MaxLogged
    /\ call' = [call EXCEPT ![c] = IdleCall]
    /\ answer' = NoAnswer
    /\ UNCHANGED <<handler, store, created, hooked, pass, pairLog>>

InitThree ==
    /\ users = [u \in People |-> [f \in Fields |-> 0]]
    /\ created = users
    /\ hooked = People
    /\ following = [u \in People |-> {}]
    /\ followers = [u \in People |-> {}]
    /\ call = [c \in Calls |-> IdleCall]
    /\ pass = [p \in Passes |-> IdlePass]
    /\ answer = NoAnswer
    /\ pairLog = [pr \in People \X People |-> <<>>]
    /\ Constructed(TRUE)

NextThree ==
    \/ \E c \in Calls, auth \in People, target \in People : Invoke(c, auth, target)
    \/ \E c \in Calls : TxnRead(c)
    \/ \E c \in Calls : TxnCommit(c)
    \/ \E c \in Calls : TxnAbort(c)
    \/ \E c \in Calls : Return(c)

SpecThree == InitThree /\ [][NextThree]_vars

\* The schedule goes on: a run that is over makes room for the next day's run,
\* and the scheduler keeps starting runs, which keep reading and completing.
Reschedule(p) ==
    /\ pass[p].pc = "done"
    /\ pass' = [pass EXCEPT ![p] = IdlePass]
    /\ answer' = NoAnswer
    /\ UNCHANGED <<handler, store, created, hooked, call, pairLog>>

Schedule == Reconciliation \/ \E p \in Passes : Reschedule(p)

NextLive ==
    \/ \E id \in Users : OnUserCreate(id)
    \/ OneToggle
    \/ Schedule

SpecLive == InitPopulated /\ [][NextLive]_vars /\ WF_vars(Schedule)

\* Every function of the module at work on two existing accounts while the
\* store may fail the write of the trigger and any step of the job.
BackgroundFaults ==
    \/ \E id \in Users : OnUserCreateFail(id)
    \/ \E p \in Passes : NoRunInProgress /\ SyncListFail(p)
    \/ \E p \in Passes : SyncFail(p)

NextBackground == NextAll \/ BackgroundFaults

SpecBackground == InitPopulated /\ [][NextBackground]_vars

\* Requests to updateFollowStatus on two existing accounts, MaxCalls of them in
\* progress at a time, which callers may give up and the store may fail.  The
\* platform keeps running every invocation it started.
Progress(c) == TxnRead(c) \/ TxnCommit(c) \/ TxnAbort(c)

NextToggleLive ==
    \/ \E c \in Calls, auth \in Users, target \in Users : Invoke(c, auth, target)
    \/ \E c \in Calls : TxnRead(c)
    \/ \E c \in Calls : TxnCommit(c)
    \/ \E c \in Calls : TxnAbort(c)
    \/ \E c \in Calls : TxnFail(c)
    \/ \E c \in Calls : Abandon(c)
    \/ \E c \in Calls : Return(c)

SpecToggleLive ==
    InitPopulated /\ [][NextToggleLive]_vars /\ \A c \in Calls : WF_vars(Progress(c))

\* The page with its handler: connectivity events, blocked requests, clicks
\* on Retry Connection, and the retries in flight.  No function is called.
InitHandler ==
    /\ users = EmptyDoc
    /\ following = [u \in Users |-> {}]
    /\ followers = [u \in Users |-> {}]
    /\ created = EmptyDoc
    /\ hooked = {}
    /\ call = [c \in Calls |-> IdleCall]
    /\ pass = [p \in Passes |-> IdlePass]
    /\ answer = NoAnswer
    /\ pairLog = [pr \in Users \X Users |-> <<>>]
    /\ \E online \in BOOLEAN : Constructed(online)

NextHandler ==
    \/ ClickRetry
    \/ Online
    \/ \E currentUser \in BOOLEAN : Offline(currentUser)
    \/ \E currentUser \in BOOLEAN, shown \in BOOLEAN : Blocked(currentUser, shown)
    \/ \E hasInit \in BOOLEAN : RetryDelayOver(hasInit)
    \/ \E ok \in BOOLEAN, hasTest \in BOOLEAN : RetryInitSettled(ok, hasTest)
    \/ \E ok \in BOOLEAN : RetryTestSettled(ok)

SpecHandler == InitHandler /\ [][NextHandler]_vars

\* ------------------------------------------------------------------ properties
Committed(c) == call[c].pc = "done" /\ call[c].res \in Statuses
SamePair(c, d) == call[c].caller = call[d].caller /\ call[c].target = call[d].target

\* The value of a counter as the functions read it (`x || 0`, and
\* FieldValue.increment): an absent counter has the value 0.
ValueOf(cnt) == IF cnt = {} THEN 0 ELSE CHOOSE n \in cnt : TRUE

\* C1: in every reachable state, b is in a's following index exactly when a is
\* in b's followers index.
C1_Mirror ==
    \A a \in Users, b \in Users : (b \in following[a]) <=> (a \in followers[b])

\* C1 witness: an edge created by a committed toggle is present in both indexes
\* after a trigger run and a reconciliation pass.
C1_Witness ==
    \E c \in Calls :
        /\ Committed(c) /\ call[c].res = "followed"
        /\ call[c].target \in following[call[c].caller]
        /\ call[c].caller \in followers[call[c].target]
        /\ hooked # {}
        /\ \E p \in Passes : pass[p].pc = "done"

\* C2: right after every committed toggle of (a, b), a's followingCount is the
\* size of a's following index and b's followersCount the size of b's
\* followers index.
C2_CountersMatchAfterToggle ==
    \A c \in Calls : Committed(c) =>
        /\ call[c].post.followingCount = {call[c].post.followingSize}
        /\ call[c].post.followersCount = {call[c].post.followersSize}

\* C3: of two toggles of a pair that starts NotFollowing, the first to commit
\* returns followed and the second unfollowed; never both followed.
C3_PairRace ==
    \A pr \in Users \X Users :
        Len(pairLog[pr]) >= 2 =>
            pairLog[pr][1] = "followed" /\ pairLog[pr][2] = "unfollowed"

\* C3 witness: two calls of one pair, both made before either committed, have
\* both committed, one of them on its second attempt.
C3_Witness ==
    \E c \in Calls, d \in Calls :
        /\ c # d /\ SamePair(c, d) /\ Committed(c) /\ Committed(d)
        /\ call[c].after = {} /\ call[d].after = {}
        /\ call[d].att = 2

\* Every counter of every record has the size of its index as value.
Converged ==
    \A u \in DOMAIN users :
        /\ StoredCount(users[u], FollowersCount) = Cardinality(followers[u])
        /\ StoredCount(users[u], FollowingCount) = Cardinality(following[u])

\* No toggle and no trigger write has committed since the run started.
Quiet(p) == pass[p].seen \cap {"toggle", "hook"} = {}

C5_SelfFollowRejected ==
    /\ [](\A c \in Calls : call[c].pc # "idle" => call[c].caller # call[c].target)
    /\ []((answer.op = "updateFollowStatus" /\ answer.caller \in Users
             /\ answer.caller = answer.target) => answer.res = "invalid-argument")
    /\ [][\A a \in Users : Reject(a, a) => UNCHANGED <<store, call>>]_vars

\* C5 witness: a self-follow request of a caller without a record has been
\* answered invalid-argument.
C5_Witness ==
    /\ answer.op = "updateFollowStatus"
    /\ answer.caller \in Users \ DOMAIN users
    /\ answer.caller = answer.target
    /\ answer.res = "invalid-argument"

\* call d was made after call c committed, for the same pair, and found the
\* pair and the two counters as c left them.
Follows(c, d) ==
    /\ Committed(c) /\ Committed(d) /\ SamePair(c, d)
    /\ c \in call[d].after
    /\ call[d].pre = call[c].post

\* C6: two toggles of a NotFollowing pair made one after the other return
\* followed then unfollowed and leave no entry in either index and the values
\* of a's followingCount and b's followersCount as before the first.
C6_Involution ==
    \A c \in Calls, d \in Calls :
        (Follows(c, d) /\ ~call[c].pre.inFollowing /\ ~call[c].pre.inFollowers) =>
            /\ call[c].res = "followed" /\ call[d].res = "unfollowed"
            /\ ~call[d].post.inFollowing /\ ~call[d].post.inFollowers
            /\ ValueOf(call[d].post.followingCount) = ValueOf(call[c].pre.followingCount)
            /\ ValueOf(call[d].post.followersCount) = ValueOf(call[c].pre.followersCount)

\* C6 witness: such a second toggle has committed.
C6_Witness ==
    \E c \in Calls, d \in Calls :
        Follows(c, d) /\ ~call[c].pre.inFollowing /\ call[d].res = "unfollowed"

\* C7: a request re-issued after its first attempt committed leaves the pair
\* and the two counters as the first attempt left them.
C7_IdempotentRetry ==
    \A c \in Calls, d \in Calls : Follows(c, d) => call[d].post = call[c].post

\* C8: after a request re-issued although its first attempt committed, neither
\* a's followingCount nor b's followersCount differs by 2 from its value
\* before the first attempt.
C8_NoDoubleApply ==
    \A c \in Calls, d \in Calls :
        Follows(c, d) =>
            /\ ValueOf(call[d].post.followingCount) - ValueOf(call[c].pre.followingCount)
                   \notin {-2, 2}
            /\ ValueOf(call[d].post.followersCount) - ValueOf(call[c].pre.followersCount)
                   \notin {-2, 2}

\* C8 witness: a re-issued request has committed after a first attempt that
\* returned followed.
C8_Witness ==
    \E c \in Calls, d \in Calls : Follows(c, d) /\ call[c].res = "followed"

\* What a committed toggle returned and did, from what it found.
ToggleResult(c) ==
    /\ call[c].res = "followed" <=> ~call[c].pre.inFollowing
    /\ call[c].res = "followed" =>
        /\ call[c].post.inFollowing /\ call[c].post.inFollowers
        /\ ValueOf(call[c].post.followingCount) = ValueOf(call[c].pre.followingCount) + 1
        /\ ValueOf(call[c].post.followersCount) = ValueOf(call[c].pre.followersCount) + 1
    /\ call[c].res = "unfollowed" =>
        /\ ~call[c].post.inFollowing /\ ~call[c].post.inFollowers
        /\ ValueOf(call[c].post.followingCount) = ValueOf(call[c].pre.followingCount) - 1
        /\ ValueOf(call[c].post.followersCount) = ValueOf(call[c].pre.followersCount) - 1

\* A step that changes whether a follows b is the commit of a toggle of (a, b).
OnlyToggleTransitions ==
    \A a \in Users, b \in Users :
        ((b \in following[a]) # (b \in following'[a])
            \/ (a \in followers[b]) # (a \in followers'[b])) =>
        \E c \in Calls : TxnCommit(c) /\ call[c].caller = a /\ call[c].target = b

\* C9: a committed toggle returns followed exactly when the edge was absent,
\* and then both entries exist and the values of the two counters are 1 higher;
\* it returns unfollowed exactly when the edge was present, and then both
\* entries are gone and the values of the two counters are 1 lower; no other
\* step changes the state of a pair, and every pair starts NotFollowing.
C9_ToggleTransition ==
    /\ \A a \in Users : following[a] = {} /\ followers[a] = {}
    /\ [](\A c \in Calls : Committed(c) => ToggleResult(c))
    /\ [][OnlyToggleTransitions]_vars

\* C9 witness: a toggle that returned followed and one that returned
\* unfollowed have committed, on records without counters at first.
C9_Witness ==
    \E c \in Calls, d \in Calls :
        /\ Committed(c) /\ call[c].res = "followed" /\ call[c].pre.followingCount = {}
        /\ Committed(d) /\ call[d].res = "unfollowed"

\* The last committed toggle of the pair (a, b) returned followed.
LastFollowed(a, b) ==
    pairLog[<<a, b>>] # <<>> /\ pairLog[<<a, b>>][Len(pairLog[<<a, b>>])] = "followed"

\* C10: for an authenticated caller a and a target b, checkFollowStatus answers
\* true exactly when b is in a's following index, which is exactly when the
\* last committed toggle of (a, b) returned followed.
C10_CheckReflectsEdge ==
    (answer.op = "checkFollowStatus" /\ answer.caller \in Users /\ answer.target \in Users) =>
        /\ answer.res \in {"true", "false"}
        /\ answer.res = "true" <=> answer.target \in following[answer.caller]
        /\ answer.res = "true" <=> LastFollowed(answer.caller, answer.target)

\* C10 witness: the answer is true while the caller's followingCount has
\* drifted from the size of its following index.
C10_Witness ==
    /\ answer.op = "checkFollowStatus" /\ answer.res = "true"
    /\ answer.caller \in DOMAIN users
    /\ StoredCount(users[answer.caller], FollowingCount)
           # Cardinality(following[answer.caller])

\* The error kinds updateFollowStatus ends with.
ErrorKinds == {"unauthenticated", "invalid-argument", "not-found", "internal"}

\* C11: no step of an updateFollowStatus call that ends with an error changes
\* an index entry or a record: neither the rejection of a request by a check,
\* nor the start of a transaction, a run of its update function, an aborted
\* attempt or a failure of the store; a call that is over has ended with a
\* status or with one of the error kinds.
C11_FailedToggleNoEffect ==
    /\ [][\A c \in Calls :
            (call'[c] # call[c] /\ call'[c].res \notin Statuses) => UNCHANGED store]_vars
    /\ [][(answer'.op = "updateFollowStatus" /\ answer' # answer) =>
            (answer'.res \in ErrorKinds /\ UNCHANGED <<store, call>>)]_vars
    /\ [](\A c \in Calls : call[c].pc = "done" => call[c].res \in Statuses \cup ErrorKinds)

\* C11 witness: a call has ended internal although another call of the same
\* pair, made no earlier, committed; the pair is as the committed call left it.
C11_Witness ==
    \E c \in Calls, d \in Calls :
        /\ call[c].pc = "done" /\ call[c].res = "internal"
        /\ Committed(d) /\ SamePair(c, d) /\ d \notin call[c].after
        /\ Observe(users, following, followers, call[d].caller, call[d].target) = call[d].post

\* C12: a run of the update function of a call (a, b) that finds no record of
\* a or no record of b ends the call not-found and changes no index entry and
\* no record, whether or not b is in a's following index; and a call that
\* ended not-found has committed nothing.
C12_NotFoundOnMissingUser ==
    /\ [][\A c \in Calls :
            (/\ call[c].pc = "txn" /\ call'[c] # call[c]
             /\ (call[c].caller \notin DOMAIN users \/ call[c].target \notin DOMAIN users))
            => (call'[c].pc = "done" /\ call'[c].res = "not-found" /\ UNCHANGED store)]_vars
    /\ [](\A c \in Calls : call[c].res = "not-found" =>
            (call[c].pre = NoObs /\ call[c].post = NoObs
             /\ call[c].caller # call[c].target /\ call[c].target # NoTarget))

\* C12 witness: a call (a, b) has ended not-found while b is in a's following
\* index, and another has ended not-found while it is not.
C12_Witness ==
    \E c \in Calls, d \in Calls :
        /\ call[c].res = "not-found" /\ call[c].target \in following[call[c].caller]
        /\ call[d].res = "not-found" /\ call[d].target \notin following[call[d].caller]

C14_UnauthenticatedToggle ==
    /\ []((answer.op = "updateFollowStatus" /\ answer.caller = NoAuth) =>
            answer.res = "unauthenticated")
    /\ [][\A t \in Targets : Reject(NoAuth, t) => UNCHANGED <<store, call>>]_vars

\* C15: a request to checkFollowStatus with no auth context is answered
\* unauthenticated, and a request of an authenticated caller with no target is
\* answered invalid-argument.
C15_StatusCheckErrors ==
    /\ (answer.op = "checkFollowStatus" /\ answer.caller = NoAuth) =>
            answer.res = "unauthenticated"
    /\ (answer.op = "checkFollowStatus" /\ answer.caller \in Users
          /\ answer.target = NoTarget) => answer.res = "invalid-argument"

\* C16: a request to getUserFollowStats with no userId and no auth context is
\* answered invalid-argument.
C16_StatsNoUserId ==
    (answer.op = "getUserFollowStats" /\ answer.caller = NoAuth /\ answer.target = NoTarget) =>
        answer.res = "invalid-argument"

\* C17: getUserFollowStats, for the userId given or else the caller's id,
\* answers not-found when there is no record of that id, and otherwise the
\* values of followersCount and followingCount stored on the record, 0 for a
\* counter that is absent.
C17_StatsResult ==
    (answer.op = "getUserFollowStats" /\ (answer.target # NoTarget \/ answer.caller \in Users)) =>
        LET id == IF answer.target # NoTarget THEN answer.target ELSE answer.caller IN
        IF id \in DOMAIN users
        THEN /\ answer.res = "ok"
             /\ answer.followersCount = ValueOf(FieldOf(users[id], FollowersCount))
             /\ answer.followingCount = ValueOf(FieldOf(users[id], FollowingCount))
        ELSE answer.res = "not-found"

\* C17 witness: the counters of another user have been answered, followersCount
\* 1 as stored and followingCount 0 for a counter absent from the record.
C17_Witness ==
    /\ answer.op = "getUserFollowStats" /\ answer.res = "ok"
    /\ answer.target \in Users /\ answer.target # answer.caller
    /\ answer.followersCount = 1 /\ answer.followingCount = 0
    /\ FollowingCount \notin DOMAIN users[answer.target]

\* C18: when onUserCreate runs for a record created without followersCount or
\* without followingCount, both counters are present on the record and 0
\* after the run.
C18_HookInitializes ==
    [][\A id \in Users :
        (OnUserCreate(id) /\ Fields \ DOMAIN created[id] # {}) =>
            \A f \in Fields : FieldOf(users'[id], f) = {0}]_vars

\* C18 amended: when onUserCreate runs for a record created without
\* followersCount or without followingCount, after the run both counters are
\* present on the record: a counter the record was created without is 0, and a
\* counter it was created with has the value it was created with.
C18_HookInitializesAbsent ==
    [][\A id \in Users :
        (OnUserCreate(id) /\ Fields \ DOMAIN created[id] # {}) =>
            \A f \in Fields :
                FieldOf(users'[id], f) =
                    IF f \in DOMAIN created[id] THEN {created[id][f]} ELSE {0}]_vars

\* C18 witness: the trigger has run for a record created with followingCount 1
\* and no followersCount; the record holds followingCount 1 and followersCount 0.
C18_Witness ==
    \E id \in hooked :
        /\ DOMAIN created[id] = {FollowingCount} /\ created[id][FollowingCount] = 1
        /\ FieldOf(users[id], FollowingCount) = {1}
        /\ FieldOf(users[id], FollowersCount) = {0}

\* C19: a further run of onUserCreate for a record on which both counters are
\* present leaves the record as it is, whatever the values of the counters.
C19_HookIdempotent ==
    [][\A id \in Users :
        (OnUserCreateAgain(id) /\ Fields \subseteq DOMAIN users[id]) =>
            users'[id] = users[id]]_vars

\* The counters of u have the sizes of u's indexes as values.
CountsMatch(u) ==
    /\ StoredCount(users[u], FollowersCount) = Cardinality(followers[u])
    /\ StoredCount(users[u], FollowingCount) = Cardinality(following[u])

\* The user whose processing fails when run p fails: the user whose indexes
\* are read next or, when the commit fails, one of the users of the batch.
FailingUsers(p) ==
    IF pass[p].todo # <<>> THEN {Head(pass[p].todo)} ELSE DOMAIN pass[p].batch

\* C20: when a run of the job ends because the processing of one user fails,
\* every other user whose counters differed from the sizes of its indexes has
\* them corrected when the run ends.
C20_PerUserIsolation ==
    [][\A p \in Passes :
        SyncFail(p) =>
            \E f \in FailingUsers(p) :
                \A u \in DOMAIN users \ {f} : ~CountsMatch(u) => CountsMatch(u)']_vars

\* C21: a step of syncFollowerCounts, of onUserCreate, of getUserFollowStats or
\* of checkFollowStatus leaves every following index and every followers
\* index as it is; a step that changes an index is the commit of an
\* updateFollowStatus transaction.
C21_CounterOnlyRepair ==
    [][/\ \A p \in Passes :
            (SyncList(p) \/ SyncRead(p) \/ SyncCommit(p)) => UNCHANGED <<following, followers>>
       /\ \A id \in Users : OnUserCreate(id) => UNCHANGED <<following, followers>>
       /\ \A auth \in Callers, t \in Targets :
            (CheckFollowStatus(auth, t) \/ GetUserFollowStats(auth, t))
                => UNCHANGED <<following, followers>>
       /\ (<<following, followers>>' # <<following, followers>>)
            => \E c \in Calls : TxnCommit(c)]_vars

\* C21 witness: an edge is in both indexes after a trigger wrote counters, a
\* run of the job corrected counters and checkFollowStatus answered true.
C21_Witness ==
    /\ answer.op = "checkFollowStatus" /\ answer.res = "true"
    /\ \E id \in hooked : NeedsInit(created[id])
    /\ \E p \in Passes : pass[p].pc = "done" /\ pass[p].wrote
    /\ \E a \in Users : following[a] # {} /\ \E b \in following[a] : a \in followers[b]

\* C22: in every reachable state every counter stored on a record is >= 0.
C22_CountersNonNegative ==
    \A u \in DOMAIN users : \A f \in DOMAIN users[u] : users[u][f] >= 0

\* C23: in every reachable state no user is in its own following index or in
\* its own followers index.
C23_NoSelfEdge ==
    \A u \in Users : u \notin following[u] /\ u \notin followers[u]

\* C23 witness: a user that follows another has asked to follow itself and
\* was refused; its following index holds the other user only.
C23_Witness ==
    /\ answer.op = "updateFollowStatus" /\ answer.caller \in Users
    /\ answer.caller = answer.target /\ answer.res = "invalid-argument"
    /\ following[answer.caller] # {}
    /\ answer.caller \notin following[answer.caller]

\* C27: a run of onUserCreate leaves every counter that is on the record when
\* its write is applied with the value it has.
C27_HookOnlyCreates ==
    [][\A id \in Users :
        OnUserCreate(id) =>
            \A f \in DOMAIN users[id] : users'[id][f] = users[id][f]]_vars

\* C24: for every ordered pair, the statuses of its committed toggles, in
\* commit order, are followed, unfollowed, followed, ...; and the pair is in
\* the following index exactly when the number of its committed toggles is odd.
C24_PairLinearization ==
    \A pr \in DOMAIN pairLog :
        /\ \A i \in 1..Len(pairLog[pr]) :
              pairLog[pr][i] = IF i % 2 = 1 THEN "followed" ELSE "unfollowed"
        /\ (pr[2] \in following[pr[1]]) <=> (Len(pairLog[pr]) % 2 = 1)

\* C24 witness: a pair has three committed toggles, and a call of that pair
\* committed on its second attempt.
C24_Witness ==
    \E c \in Calls :
        /\ Committed(c) /\ call[c].att = 2
        /\ Len(pairLog[<<call[c].caller, call[c].target>>]) >= 3

\* The sum of the +1 (followed) and -1 (unfollowed) of a sequence of statuses.
RECURSIVE NetOf(_)
NetOf(log) ==
    IF log = <<>> THEN 0
    ELSE (IF Head(log) = "followed" THEN 1 ELSE -1) + NetOf(Tail(log))

\* The sum of NetOf over the committed toggles of the pairs prs.
RECURSIVE NetOver(_)
NetOver(prs) ==
    IF prs = {} THEN 0
    ELSE LET pr == CHOOSE x \in prs : TRUE IN NetOf(pairLog[pr]) + NetOver(prs \ {pr})

\* C25: every user's followersCount is the sum of the +1/-1 of the committed
\* toggles that target the user, its followingCount the sum over the committed
\* toggles the user made (the counters start at 0), and each is the size of the
\* user's index: no increment is lost, none is applied without its edge.
C25_NoLostUpdate ==
    \A u \in DOMAIN users :
        /\ StoredCount(users[u], FollowersCount) = NetOver({pr \in DOMAIN pairLog : pr[2] = u})
        /\ StoredCount(users[u], FollowingCount) = NetOver({pr \in DOMAIN pairLog : pr[1] = u})
        /\ StoredCount(users[u], FollowersCount) = Cardinality(followers[u])
        /\ StoredCount(users[u], FollowingCount) = Cardinality(following[u])

\* C25 witness: two calls of different pairs with the same target, neither made
\* after the other committed, have both committed, one on its second attempt,
\* and the target has two followers.
C25_Witness ==
    \E c \in Calls, d \in Calls :
        /\ Committed(c) /\ Committed(d)
        /\ call[c].target = call[d].target /\ call[c].caller # call[d].caller
        /\ c \notin call[d].after /\ d \notin call[c].after
        /\ call[d].att = 2
        /\ StoredCount(users[call[c].target], FollowersCount) = 2

\* C26: the commit of a toggle of (a, b) leaves every counter other than a's
\* followingCount and b's followersCount, and every index entry other than
\* b in a's following index and a in b's followers index, as it is.
C26_ToggleFrame ==
    [][\A c \in Calls :
        TxnCommit(c) =>
            LET a == call[c].caller
                b == call[c].target
            IN /\ DOMAIN users' = DOMAIN users
               /\ \A u \in DOMAIN users, f \in Fields :
                    (<<u, f>> \notin {<<a, FollowingCount>>, <<b, FollowersCount>>}) =>
                        FieldOf(users'[u], f) = FieldOf(users[u], f)
               /\ \A x \in DOMAIN following, y \in DOMAIN following :
                    (<<x, y>> # <<a, b>>) =>
                        /\ (y \in following'[x]) <=> (y \in following[x])
                        /\ (x \in followers'[y]) <=> (x \in followers[y])]_vars

\* C26 witness: a toggle of (a, b) has committed while b follows a third user
\* and a is followed by a third user.
C26_Witness ==
    \E c \in Calls :
        /\ Committed(c)
        /\ \E u \in DOMAIN users \ {call[c].caller, call[c].target} :
              /\ u \in following[call[c].target]
              /\ u \in followers[call[c].caller]
        /\ StoredCount(users[call[c].target], FollowingCount) = 1
        /\ StoredCount(users[call[c].caller], FollowersCount) = 1

\* A step that is neither the commit of a toggle nor a run of the trigger.
NoToggleNoHook ==
    /\ \A c \in Calls : ~TxnCommit(c)
    /\ \A id \in Users : ~OnUserCreate(id)

\* C28: if from some point on no toggle commits and no trigger runs, while the
\* job keeps being scheduled and completing, then from some point on every
\* counter has the size of its index as value, for ever.
C28_NextPassConverges == (<>[][NoToggleNoHook]_vars) => <>[]Converged

\* C28 witness: after a committed toggle and a trigger write made the counters
\* drift, a later run of the job has written and the counters have the sizes of
\* the indexes.
C28_Witness ==
    /\ Converged
    /\ \E c \in Calls : Committed(c)
    /\ \E id \in hooked : NeedsInit(created[id]) /\ (followers[id] # {} \/ following[id] # {})
    /\ \E p \in Passes : pass[p].pc = "done" /\ pass[p].wrote /\ pass[p].seen = {}

\* Runs p and q have overlapped, p is over without error, and no toggle has
\* committed while either was in progress.
OverlappedNoToggle(p, q) ==
    /\ p # q
    /\ pass[p].pc = "done" /\ ~pass[p].err
    /\ pass[p].overlap /\ pass[q].overlap
    /\ "toggle" \notin pass[p].seen \cup pass[q].seen

C30_WritesOnlyWhereNeeded ==
    [][\A p \in Passes :
        /\ SyncList(p) => users' = users
        /\ SyncRead(p) =>
            LET id == Head(pass[p].todo)
                doc == pass[p].list[id]
                fers == Cardinality(followers[id])
                fing == Cardinality(following[id])
                differs == \/ ValueOf(FieldOf(doc, FollowersCount)) # fers
                           \/ ValueOf(FieldOf(doc, FollowingCount)) # fing
            IN /\ users' = users
               /\ (id \in DOMAIN pass'[p].batch) <=> differs
               /\ differs => /\ pass'[p].batch[id][FollowersCount] = fers
                             /\ pass'[p].batch[id][FollowingCount] = fing
               /\ \A u \in DOMAIN pass[p].batch :
                    u \in DOMAIN pass'[p].batch /\ pass'[p].batch[u] = pass[p].batch[u]
        /\ SyncCommit(p) =>
            \A u \in DOMAIN users :
                IF u \in DOMAIN pass[p].batch
                THEN /\ FieldOf(users'[u], FollowersCount) = {pass[p].batch[u][FollowersCount]}
                     /\ FieldOf(users'[u], FollowingCount) = {pass[p].batch[u][FollowingCount]}
                ELSE users'[u] = users[u]]_vars

\* C30 witness: a run has corrected one user and left alone another whose
\* followingCount is still absent from its record, with one follower counted.
C30_Witness ==
    /\ \E p \in Passes : pass[p].pc = "done" /\ pass[p].wrote /\ pass[p].seen = {}
    /\ \E u \in DOMAIN users :
          /\ FollowingCount \notin DOMAIN users[u]
          /\ FieldOf(users[u], FollowersCount) = {1}
    /\ \E v \in DOMAIN users : Fields \subseteq DOMAIN users[v] /\ following[v] # {}
    /\ Converged

\* C38: connectionAttempts never exceeds maxRetries, however many
\* retryConnection calls, started by 'online' events and by clicks, are in
\* flight; and a retryConnection call made while connectionAttempts >=
\* maxRetries does nothing but show a notification.
C38_BoundedRetries ==
    /\ [](connectionAttempts \in 0..maxRetries)
    /\ [][(ClickRetry /\ connectionAttempts >= maxRetries) =>
            /\ UNCHANGED <<isOnline, connectionAttempts, fallbackMode, retries>>
            /\ notification' = "max-retries"]_vars
    /\ [][(Online /\ fallbackMode /\ connectionAttempts >= maxRetries) =>
            /\ UNCHANGED <<connectionAttempts, fallbackMode, retries>>
            /\ notification' = "max-retries"]_vars

\* C38 witness: a call has been refused at maxRetries attempts while two or
\* more earlier calls were still in flight.
C38_Witness ==
    /\ connectionAttempts = maxRetries
    /\ InFlight >= 2
    /\ isOnline
    /\ notification = "max-retries"

\* The budget is used up in fallback mode and no call is in flight.
Exhausted == connectionAttempts = maxRetries /\ fallbackMode /\ InFlight = 0

\* C39: fallbackMode goes from true to false, and connectionAttempts back to
\* 0, only in the step of a retryConnection call whose re-initialization
\* succeeded; so once the budget is used up in fallback mode with no call in
\* flight, fallbackMode stays true for ever.
C39_FallbackLeftBySuccessOnly ==
    /\ [][((fallbackMode /\ ~fallbackMode') \/ (connectionAttempts > 0 /\ connectionAttempts' = 0)) =>
            /\ InFlight' = InFlight - 1
            /\ retries.init + retries.test > 0
            /\ notification' = "restored"
            /\ ~fallbackMode' /\ connectionAttempts' = 0]_vars
    /\ [][Exhausted => Exhausted']_vars

\* C39 witness: the budget was used up in fallback mode, no call is in
\* flight, and a further retryConnection call has been refused.
C39_Witness == Exhausted /\ notification = "max-retries"

\* C31: a failure of the write of onUserCreate, or of the listing, of a read
\* or of the commit of syncFollowerCounts, ends the invocation as any other
\* (the error is logged, not thrown), and the failing step changes no record,
\* no index entry and no updateFollowStatus call: what a toggle or a stats
\* call answers is what it would answer had the background step not run.
C31_BackgroundErrorsContained ==
    /\ [](\A p \in Passes : pass[p].pc \in {"idle", "scan", "done"})
    /\ [](answer.op = "onUserCreate" => answer.res = "done")
    /\ [][\A p \in Passes : (SyncListFail(p) \/ SyncFail(p)) =>
            /\ pass'[p].err /\ pass'[p].pc = "done"
            /\ UNCHANGED <<store, call, pairLog>>]_vars
    /\ [][\A id \in Users : OnUserCreateFail(id) =>
            /\ id \in hooked'
            /\ UNCHANGED <<store, call, pass, pairLog>>]_vars

\* C31 witness: the write of a trigger failed (the record still lacks a
\* counter after its trigger ran), a run of the job ended on an error, and a
\* toggle has committed.
C31_Witness ==
    /\ hooked = Users
    /\ \E u \in Users : created[u] = EmptyDoc /\ \E f \in Fields : f \notin DOMAIN users[u]
    /\ \E p \in Passes : pass[p].pc = "done" /\ pass[p].err
    /\ \E c \in Calls : Committed(c)

\* C32: a run of the update function that finds a record missing ends the call
\* not-found; a transaction the store gives up after its last attempt, or
\* fails for any other reason, ends the call internal; a call ends with a
\* status only in the step in which its transaction commits, and a call that
\* started a transaction ends with a status, not-found or internal.
C32_ToggleErrorKinds ==
    /\ [][\A c \in Calls :
            (/\ TxnRead(c)
             /\ (call[c].caller \notin DOMAIN users \/ call[c].target \notin DOMAIN users))
            => (call'[c].pc = "done" /\ call'[c].res = "not-found")]_vars
    /\ [][\A c \in Calls :
            (TxnFail(c) \/ (TxnAbort(c) /\ call[c].att = MaxAttempts))
            => (call'[c].pc = "done" /\ call'[c].res = "internal")]_vars
    /\ [][\A c \in Calls :
            (call[c].res \notin Statuses /\ call'[c].res \in Statuses) => TxnCommit(c)]_vars
    /\ [](\A c \in Calls :
            call[c].pc = "done" => call[c].res \in Statuses \cup {"not-found", "internal"})

\* C32 witness: one call has ended not-found and another internal.
C32_Witness ==
    \E c \in Calls, d \in Calls :
        /\ call[c].pc = "done" /\ call[c].res = "not-found"
        /\ call[d].pc = "done" /\ call[d].res = "internal"

\* C33: every updateFollowStatus call that started its transaction ends, also
\* when other calls keep committing on the same pair or the same users, when
\* the store fails and when the caller has given the request up; it ends with
\* a status when its transaction committed, which it does at most once, and
\* with an error when nothing of it was committed.
C33_ToggleTerminates ==
    /\ \A c \in Calls : (call[c].pc \in {"txn", "commit"}) ~> (call[c].pc = "done")
    /\ [](\A c \in Calls : call[c].pc = "done" =>
            \/ call[c].res \in Statuses /\ call[c].post # NoObs
            \/ call[c].res \in ErrorKinds /\ call[c].post = NoObs)
    /\ [][\A c \in Calls : store' # store /\ call'[c] # call[c] =>
            (call[c].post = NoObs /\ call'[c].pc = "done" /\ call'[c].res \in Statuses)]_vars

\* C33 witness: a call its caller gave up has committed on its second
\* attempt, and another call its caller gave up has ended internal.
C33_Witness ==
    \E c \in Calls, d \in Calls :
        /\ Committed(c) /\ call[c].gone /\ call[c].att = 2
        /\ call[d].pc = "done" /\ call[d].gone /\ call[d].res = "internal"

\* A run of syncFollowerCounts is between its listing and its commit.
SyncInProgress == \E p \in Passes : pass[p].pc = "scan"

\* C34: in every state in which a run of syncFollowerCounts is in progress,
\* a new updateFollowStatus request can start its transaction, a transaction
\* can run its update function, a transaction whose reads are still current
\* can commit (one whose reads are not is run again or given up), and
\* getUserFollowStats and checkFollowStatus can answer; and the listing and
\* the reads of the run change nothing a transaction has read.
C34_SyncNeverBlocks ==
    /\ [](SyncInProgress =>
            /\ NoCallYet => \A a \in Users : \A b \in Users \ {a} : ENABLED Invoke(1, a, b)
            /\ \A c \in Calls : call[c].pc = "txn" => ENABLED TxnRead(c)
            /\ \A c \in Calls :
                 (call[c].pc = "commit"
                    /\ ReadSnap(call[c].caller, call[c].target) = call[c].snap)
                 => ENABLED TxnCommit(c)
            /\ \A c \in Calls :
                 (call[c].pc = "commit"
                    /\ ReadSnap(call[c].caller, call[c].target) # call[c].snap)
                 => ENABLED TxnAbort(c)
            /\ \A auth \in Callers, t \in Targets :
                 ENABLED CheckFollowStatus(auth, t) /\ ENABLED GetUserFollowStats(auth, t))
    /\ [][\A p \in Passes : (SyncList(p) \/ SyncRead(p)) =>
            \A c \in Calls : call[c].pc = "commit" =>
                (ReadSnap(call[c].caller, call[c].target) = call[c].snap)'
                    = (ReadSnap(call[c].caller, call[c].target) = call[c].snap)]_vars

\* C34 witness: while a run of the job is in progress, a toggle has committed
\* and a stats request has just been answered.
C34_Witness ==
    /\ \E p \in Passes : pass[p].pc = "scan" /\ pass[p].todo # <<>> /\ "toggle" \in pass[p].seen
    /\ \E c \in Calls : Committed(c)
    /\ answer.op = "getUserFollowStats" /\ answer.res = "ok"

\* C35: no getUserFollowStats and no checkFollowStatus request, whether it is
\* answered with a result or with an error, changes a record, a counter or an
\* index entry.
C35_QueriesReadOnly ==
    [][\A auth \in Callers, t \in Targets :
         (GetUserFollowStats(auth, t) \/ CheckFollowStatus(auth, t)) =>
            (users' = users /\ following' = following /\ followers' = followers)]_vars

\* C35 witness: checkFollowStatus has just answered true for an existing
\* edge, whose follower's record lacks a counter field.
C35_Witness ==
    /\ answer.op = "checkFollowStatus" /\ answer.res = "true"
    /\ answer.target \in following[answer.caller]
    /\ \E f \in Fields : f \notin DOMAIN users[answer.caller]

\* C36: every counter value a run of syncFollowerCounts writes is the size of
\* the index at the moment its batch commits, also when toggles committed
\* since the run listed the users; so a user whose counters had the sizes of
\* its indexes still has them after the commit.
C36_SyncWritesCurrentSizes ==
    [][\A p \in Passes : SyncCommit(p) =>
         /\ \A u \in DOMAIN pass[p].batch :
              /\ pass[p].batch[u][FollowersCount] = Cardinality(followers[u])
              /\ pass[p].batch[u][FollowingCount] = Cardinality(following[u])
         /\ \A u \in DOMAIN users : CountsMatch(u) => CountsMatch(u)']_vars

\* The differences between the two counters of a record, read as the
\* functions read them, and the sizes of its two indexes.
Drift(us, fg, fe, u) ==
    <<StoredCount(us[u], FollowingCount) - Cardinality(fg[u]),
      StoredCount(us[u], FollowersCount) - Cardinality(fe[u])>>

\* C37: the commit of an updateFollowStatus transaction leaves, for every
\* user, the difference between followingCount and the size of the following
\* index and the difference between followersCount and the size of the
\* followers index as they were.
C37_TogglePreservesDrift ==
    [][\A c \in Calls : TxnCommit(c) =>
         \A u \in DOMAIN users :
            Drift(users', following', followers', u) = Drift(users, following, followers, u)]_vars

\* C37 witness: a toggle has committed on a pair whose counters differed from
\* the sizes of the indexes, and they differ by as much after it.
C37_Witness ==
    \E c \in Calls :
        /\ Committed(c)
        /\ ValueOf(call[c].pre.followingCount) # call[c].pre.followingSize
        /\ ValueOf(call[c].post.followingCount) - call[c].post.followingSize
             = ValueOf(call[c].pre.followingCount) - call[c].pre.followingSize
        /\ ValueOf(call[c].post.followersCount) # call[c].post.followersSize

====
